---- MODULE Spec2Model ----
(***************************************************************************)
(* Model of src/hibob_public_mcp/mcp_server.py: the two module-level       *)
(* metadata caches (_field_metadata_cache, _named_lists_cache), the        *)
(* memoizing lookups over them, the value resolver _resolve_list_values    *)
(* and the tool hibob_people_search.                                       *)
(*                                                                         *)
(* JSON values are represented as records of fixed shape so that TLC can   *)
(* compare them: a dict lookup that may miss is a field holding Absent, a  *)
(* Python None is a record with set = FALSE, an integer 1 is the tagged    *)
(* value "i1" (Str turns it into "1", as str() does).                      *)
(***************************************************************************)
EXTENDS Integers, Sequences, FiniteSets, TLC

\* ------------------------------------------------------------------ bounds
MaxEmps == 1
MaxRoster == 2
MaxCalls == 2
MaxClock == 3
TTL == 2

\* ------------------------------------------------------------------ values
Absent == "<absent>"
Null == "<null>"

\* str(x) of the raw values that occur: str(1) = "1", str(None) = "None",
\* str(s) = s for a string s.
Str(v) ==
    IF v = "i1" THEN "1"
    ELSE IF v = "i2" THEN "2"
    ELSE IF v = Null THEN "None"
    ELSE v

\* Field ids are dotted paths; a path is modelled by the sequence
\* field_id.split(".") returns.
F_title == <<"work", "title">>
F_dept == <<"work", "dept">>
F_deep == <<"work", "custom", "x">>
FieldIds == {F_title, F_dept, F_deep}
Paths2 == {f \in FieldIds : Len(f) = 2}
ListIds == {"L1", "L2"}

\* One entry of the field schema: field.get("id", ""), field.get("type"),
\* (field.get("typeData") or {}).get("listId") with "" for a missing listId;
\* isDict is isinstance(field, dict).
Entry(isDict, id, type, listId) ==
    [isDict |-> isDict, id |-> id, type |-> type, listId |-> listId]

\* One item of a named list: "" stands for a missing or empty attribute.
Item(id, value, name) == [id |-> id, value |-> value, name |-> name]

\* What one remote call can produce: an exception (raise_for_status, a
\* transport error), the JSON value null, or a JSON document.
Raise == [kind |-> "raise", v |-> <<>>]
JsonNull == [kind |-> "null", v |-> <<>>]
Json(v) == [kind |-> "json", v |-> v]

SchemaA ==
    << Entry(TRUE, F_title, "list", "L1"),
       Entry(TRUE, F_dept, "multi-list", "L2"),
       Entry(TRUE, F_deep, "hierarchy-list", "L1"),
       Entry(FALSE, F_dept, "list", "L1") >>
SchemaB ==
    << Entry(TRUE, F_title, "hierarchy-list", "L2"),
       Entry(TRUE, F_dept, "list", ""),
       Entry(TRUE, F_title, "list", "L1"),
       Entry(TRUE, F_dept, "text", "L2") >>
SchemaOutcomes == {Raise, JsonNull, Json(<<>>), Json(SchemaA), Json(SchemaB)}

ListA ==
    << Item("i1", "CEO", "Boss"), Item("2", "", "Eng"), Item("", "Ops", ""),
       Item("3", "", "") >>
ListB == << Item("1", "2", ""), Item("2", "CEO", "") >>
\* A named-list document is {"values": [...]} or a dict without "values".
ListDoc(hasValues, values) == [hasValues |-> hasValues, values |-> values]
ListOutcomes ==
    {Raise, JsonNull, Json(ListDoc(TRUE, ListA)), Json(ListDoc(TRUE, ListB)),
     Json(ListDoc(FALSE, <<>>))}

\* ------------------------------------------------------------------ state
VARIABLES
    field_metadata_cache,  \* _field_metadata_cache: None or the cached value
    named_lists_cache,     \* _named_lists_cache: list id -> entry (or no key)
    fmCalls,               \* remote calls issued to company/people/fields
    nlCalls,               \* remote calls issued per named-list id
    firstEntry,            \* per list id, the entry its first lookup stored
    fetchFailed,           \* the keys ("schema", list ids) whose remote fetch raised
    records,               \* the employee records at hand (the caller's, the remote's)
    fields,                \* the field ids the caller asks for
    op,                    \* the operation that ran last
    arg,                   \* its arguments
    ret,                   \* what it returned, or that it raised
    now,                   \* the time
    lastReqAt,             \* when the last roster request was made (-1: never)
    gap,                   \* the time between the last two roster requests (-1: none)
    fetchLast,             \* remote roster fetches the last roster request issued
    fetchPrev,             \* remote roster fetches the request before it issued
    fetchedAt,             \* when the roster last returned was fetched (-1: never)
    prevOk,                \* the request before the last returned a roster
    proc,                  \* per thread, where its metadata lookup stands
    org                    \* the org-chart builder's roster and rendered lines

cacheVars == <<field_metadata_cache, named_lists_cache, fmCalls, nlCalls, firstEntry,
               fetchFailed>>
timeVars == <<now, lastReqAt, gap, fetchLast, fetchPrev, fetchedAt, prevOk>>
vars == <<cacheVars, records, fields, op, arg, ret, timeVars, proc, org>>

\* The org-chart builder's employees, and what a record's reportsTo can be:
\* no reference, a reference without an id, or the id of a manager ("X" is
\* the id of nobody).
OrgIds == {"A", "B", "C"}
NotInRoster == "<not in roster>"
NoMgr == "<no reportsTo>"
NoMgrId == "<reportsTo without id>"
MgrRefs == {NoMgr, NoMgrId, "X"} \cup OrgIds

\* The threads that may run a lookup at the same time, and a thread that
\* runs none: pc is its place in the lookup, key the cache key it looks up,
\* out the outcome of its remote call, issued the remote calls its current
\* invocation has issued, fm and nl what it last read from the caches.
Procs == {"t1", "t2"}
Idle == [pc |-> "idle", key |-> "", out |-> Raise, issued |-> 0,
         fm |-> [set |-> FALSE, v |-> <<>>],
         nl |-> [present |-> FALSE, isNone |-> FALSE,
                 doc |-> [hasValues |-> FALSE, values |-> <<>>]]]

\* The caches and the call counters, threaded through the sequential code.
World == [fm |-> field_metadata_cache, nl |-> named_lists_cache,
          fmCalls |-> fmCalls, nlCalls |-> nlCalls, first |-> firstEntry,
          failed |-> fetchFailed]

\* _field_metadata_cache = None
None == [set |-> FALSE, v |-> <<>>]
Some(v) == [set |-> TRUE, v |-> v]
\* a key that is not in _named_lists_cache
NoKey == [present |-> FALSE, isNone |-> FALSE, doc |-> ListDoc(FALSE, <<>>)]
Cached(doc) == [present |-> TRUE, isNone |-> FALSE, doc |-> doc]
CachedNone == [present |-> TRUE, isNone |-> TRUE, doc |-> ListDoc(FALSE, <<>>)]

\* The element of a set of one element.  Only({e : x \in {v}}) is e with x
\* standing for the value v, computed once.
Only(S) == CHOOSE x \in S : TRUE

\* ------------------------------------------------------------------ lookups
\* what lines 38-41 assign to _field_metadata_cache for an outcome of the call
schema_value(out) ==
    IF out.kind = "raise" THEN Some(<<>>)
    ELSE IF out.kind = "null" THEN None
    ELSE Some(out.v)

\* what lines 48-51 assign to _named_lists_cache[list_id]
list_value(out) ==
    IF out.kind = "raise" THEN Cached(ListDoc(FALSE, <<>>))
    ELSE IF out.kind = "null" THEN CachedNone
    ELSE Cached(out.v)

\* _get_field_metadata(): out is the outcome of the remote call, used only
\* when the cache is None.  Returns the new world and the returned value.
get_field_metadata(w, out) ==
    IF ~w.fm.set
    THEN LET val == schema_value(out)
             w2 == [w EXCEPT !.fm = val, !.fmCalls = @ + 1,
                             !.failed = IF out.kind = "raise"
                                        THEN @ \cup {"schema"} ELSE @]
         IN  [w |-> w2, ret |-> val, called |-> TRUE]
    ELSE [w |-> w, ret |-> w.fm, called |-> FALSE]

\* _get_named_list with a failed fetch answered by {} but not stored
get_named_list_unstored_failure(w, list_id, out) ==
    IF ~w.nl[list_id].present
    THEN LET val == list_value(out)
             w2 == [w EXCEPT !.nl[list_id] = IF out.kind = "raise" THEN @ ELSE val,
                             !.nlCalls[list_id] = @ + 1,
                             !.first[list_id] =
                                 IF w.nlCalls[list_id] = 0 THEN val ELSE @,
                             !.failed = IF out.kind = "raise"
                                        THEN @ \cup {list_id} ELSE @]
         IN  [w |-> w2, ret |-> val, called |-> TRUE]
    ELSE [w |-> w, ret |-> w.nl[list_id], called |-> FALSE]

\* _get_named_list(list_id)
get_named_list(w, list_id, out) ==
    IF ~w.nl[list_id].present
    THEN LET val == list_value(out)
             w2 == [w EXCEPT !.nl[list_id] = val, !.nlCalls[list_id] = @ + 1,
                             !.first[list_id] =
                                 IF w.nlCalls[list_id] = 0 THEN val ELSE @,
                             !.failed = IF out.kind = "raise"
                                        THEN @ \cup {list_id} ELSE @]
         IN  [w |-> w2, ret |-> val, called |-> TRUE]
    ELSE [w |-> w, ret |-> w.nl[list_id], called |-> FALSE]

\* ------------------------------------------------------------------ resolver
EnumTypes == {"list", "multi-list", "hierarchy-list"}

\* list_field_map after the first i entries of fields_meta: a dict field_id ->
\* listId, kept as the keys in insertion order (order) and the value per key
\* (listOf, "" for a field that is no key).
RECURSIVE list_field_map(_, _, _)
list_field_map(fields_meta, requested_fields, i) ==
    IF i = 0
    THEN [order |-> <<>>, listOf |-> [f \in FieldIds |-> ""]]
    ELSE Only({
         LET field == fields_meta[i]
         IN  IF /\ field.isDict
                /\ field.type \in EnumTypes
                /\ field.id \in requested_fields
                /\ field.listId # ""
             THEN [order |-> IF m.listOf[field.id] # "" THEN m.order
                             ELSE Append(m.order, field.id),
                   listOf |-> [m.listOf EXCEPT ![field.id] = field.listId]]
             ELSE m
         : m \in {list_field_map(fields_meta, requested_fields, i - 1)}})

\* id_to_display is a dict from item id to display value; it is kept as a
\* total function on the strings an item id can stringify to, Absent for a
\* string that is no key.
AllItems ==
    UNION {{out.v.values[j] : j \in 1..Len(out.v.values)} :
           out \in {o \in ListOutcomes : o.kind = "json"}}
Keys == {Str(it.id) : it \in AllItems} \ {""}
EmptyMap == [k \in Keys |-> Absent]
HasKey(m, raw) == raw \in Keys /\ m[raw] # Absent

\* the inner loop of lines 82-86 over the first j items of one list
RECURSIVE add_items(_, _, _)
add_items(id_to_display, values, j) ==
    IF j = 0
    THEN id_to_display
    ELSE LET item == values[j]
             item_id == Str(item.id)
             display == IF item.value # "" THEN item.value ELSE item.name
         IN  Only({IF item_id # "" /\ display # ""
                   THEN [m EXCEPT ![item_id] = display]
                   ELSE m
                   : m \in {add_items(id_to_display, values, j - 1)}})

\* the loop of lines 80-86 over the first i keys of list_field_map: every
\* list is looked up through the cache; outs[l] is the outcome of the remote
\* call for list l, should one be issued.  A cached None has no .get: the
\* loop raises AttributeError.
RECURSIVE build_id_to_display(_, _, _, _)
build_id_to_display(w, lfm, outs, i) ==
    IF i = 0
    THEN [w |-> w, m |-> EmptyMap, raised |-> FALSE, called |-> {}]
    ELSE Only({
         IF s.raised
         THEN s
         ELSE Only({
              LET called == IF g.called
                            THEN s.called \cup {lfm.listOf[lfm.order[i]]}
                            ELSE s.called
                  values == IF g.ret.doc.hasValues THEN g.ret.doc.values
                            ELSE <<>>
              IN  IF g.ret.isNone
                  THEN [w |-> g.w, m |-> s.m, raised |-> TRUE,
                        called |-> called]
                  ELSE [w |-> g.w,
                        m |-> add_items(s.m, values, Len(values)),
                        raised |-> FALSE, called |-> called]
              : g \in {get_named_list(s.w, lfm.listOf[lfm.order[i]],
                                      outs[lfm.listOf[lfm.order[i]]])}})
         : s \in {build_id_to_display(w, lfm, outs, i - 1)}})

\* lines 94-107 with the slash-path branch as an elif of the nested one
resolve_field_elif(emp, field_id, id_to_display) ==
    IF Len(field_id) = 2
    THEN IF /\ emp.nested[field_id] # Absent
            /\ HasKey(id_to_display, Str(emp.nested[field_id]))
         THEN [emp EXCEPT !.nested[field_id] =
                   id_to_display[Str(emp.nested[field_id])]]
         ELSE IF /\ emp.slash[field_id] # Absent
                 /\ HasKey(id_to_display, Str(emp.slash[field_id]))
         THEN [emp EXCEPT !.slash[field_id] =
                   id_to_display[Str(emp.slash[field_id])]]
         ELSE emp
    ELSE emp

\* lines 94-107 for one employee and one key of list_field_map.  emp.nested[p]
\* is emp[cat][fname] (Absent unless emp[cat] is a dict holding fname) and
\* emp.slash[p] is emp["/cat/fname"]["value"] (Absent unless that is a dict
\* holding "value").
resolve_field(emp, field_id, id_to_display) ==
    IF Len(field_id) = 2
    THEN LET e1 == IF /\ emp.nested[field_id] # Absent
                      /\ HasKey(id_to_display, Str(emp.nested[field_id]))
                   THEN [emp EXCEPT !.nested[field_id] =
                             id_to_display[Str(emp.nested[field_id])]]
                   ELSE emp
         IN  IF /\ e1.slash[field_id] # Absent
                /\ HasKey(id_to_display, Str(e1.slash[field_id]))
             THEN [e1 EXCEPT !.slash[field_id] =
                       id_to_display[Str(e1.slash[field_id])]]
             ELSE e1
    ELSE emp

\* the inner loop of line 93 leaving the loop at the first key that changed
\* the record
RECURSIVE resolve_emp_break(_, _, _, _)
resolve_emp_break(emp, order, id_to_display, i) ==
    IF i = 0
    THEN emp
    ELSE Only({IF e # emp THEN e
               ELSE resolve_field(e, order[i], id_to_display)
               : e \in {resolve_emp_break(emp, order, id_to_display, i - 1)}})

\* the inner loop of line 93 over the first i keys
RECURSIVE resolve_emp(_, _, _, _)
resolve_emp(emp, order, id_to_display, i) ==
    IF i = 0
    THEN emp
    ELSE resolve_field(resolve_emp(emp, order, id_to_display, i - 1),
                       order[i], id_to_display)

HasAnyKey(m) == \E k \in Keys : m[k] # Absent

\* _resolve_list_values(employees, requested_fields): schemaOut and listOuts
\* are the outcomes of the remote calls the lookups issue, if they issue any.
resolve_list_values(w, employees, requested_fields, schemaOut, listOuts) ==
    IF employees = <<>> \/ requested_fields = {}
    THEN [w |-> w, raised |-> FALSE, emps |-> employees, called |-> {},
          m |-> EmptyMap]
    ELSE Only({
      LET c1 == IF fm.called THEN {"schema"} ELSE {}
      IN  IF ~fm.ret.set \/ fm.ret.v = <<>>
          THEN [w |-> fm.w, raised |-> FALSE, emps |-> employees, called |-> c1,
                m |-> EmptyMap]
          ELSE Only({
            IF lfm.order = <<>>
            THEN [w |-> fm.w, raised |-> FALSE, emps |-> employees,
                  called |-> c1, m |-> EmptyMap]
            ELSE Only({
              LET c2 == c1 \cup b.called
              IN  IF b.raised
                  THEN [w |-> b.w, raised |-> TRUE, emps |-> <<>>,
                        called |-> c2, m |-> b.m]
                  ELSE IF ~HasAnyKey(b.m)
                  THEN [w |-> b.w, raised |-> FALSE, emps |-> employees,
                        called |-> c2, m |-> b.m]
                  ELSE [w |-> b.w, raised |-> FALSE,
                        emps |-> [n \in 1..Len(employees) |->
                                    resolve_emp(employees[n], lfm.order, b.m,
                                                Len(lfm.order))],
                        called |-> c2, m |-> b.m]
              : b \in {build_id_to_display(fm.w, lfm, listOuts,
                                           Len(lfm.order))}})
            : lfm \in {list_field_map(fm.ret.v, requested_fields,
                                      Len(fm.ret.v))}})
      : fm \in {get_field_metadata(w, schemaOut)}})

\* ------------------------------------------------------------------ inputs
Emp(workIsDict, reportsTo, nTitle, sTitle, nDept, sDept) ==
    [idx |-> 0, workIsDict |-> workIsDict, reportsTo |-> reportsTo,
     nested |-> [p \in Paths2 |-> IF p = F_title THEN nTitle ELSE nDept],
     slash |-> [p \in Paths2 |-> IF p = F_title THEN sTitle ELSE sDept]]

\* idx is the record's place in the list it arrived in (its identity);
\* workIsDict is isinstance(e.get("work"), dict) and reportsTo is
\* e["work"].get("reportsTo"), Absent for a missing key.
\* Employee records of a roster response: both encodings, one of them, none;
\* ids as strings and as integers; values that are no ids; a work mapping
\* with a null, a missing or a set reportsTo, and no work mapping at all.
EmpShapes ==
    { Emp(TRUE, Null, "1", "1", "2", Absent),
      Emp(TRUE, "m", "i1", Absent, "1", "2"),
      Emp(FALSE, Absent, Absent, "2", Absent, Absent),
      Emp(TRUE, Absent, "CEO", Absent, Absent, "i2") }

RECURSIVE SeqsUpTo(_, _)
SeqsUpTo(S, n) ==
    IF n = 0 THEN {<<>>}
    ELSE LET shorter == SeqsUpTo(S, n - 1)
         IN  shorter \cup {Append(s, x) : s \in {t \in shorter : Len(t) = n - 1}, x \in S}

Numbered(emps) == [n \in 1..Len(emps) |-> [emps[n] EXCEPT !.idx = n]]
EmployeeLists == {Numbered(s) : s \in SeqsUpTo(EmpShapes, MaxEmps)}
Rosters == {Numbered(s) : s \in SeqsUpTo(EmpShapes, MaxRoster)}
FieldSets == SUBSET FieldIds
ListOutcomeMaps == [ListIds -> ListOutcomes]

\* ------------------------------------------------------------------ search
\* the sort key written as e.get("work", {}).get("reportsTo") is None
sort_key_any_work(e) ==
    IF e.reportsTo \in {Absent, Null} THEN 0 ELSE 1

\* the sort key of line 157
sort_key(e) ==
    IF e.workIsDict /\ e.reportsTo \in {Absent, Null} THEN 0 ELSE 1

\* sorted(employees, key=...): Python's sort is stable, and the key has the
\* two values 0 and 1.
sorted_employees(employees) ==
    SelectSeq(employees, LAMBDA e : sort_key(e) = 0)
        \o SelectSeq(employees, LAMBDA e : sort_key(e) = 1)

\* A roster-search document: {"employees": [...]} or a dict without the key.
SearchDoc(hasEmployees, employees) ==
    [hasEmployees |-> hasEmployees, employees |-> employees]

\* hibob_people_search resolving whenever fields is set, whatever
\* humanReadable is
hibob_people_search_any_flag(w, flds, humanReadable, searchOut, schemaOut, listOuts) ==
    IF searchOut.kind = "raise"
    THEN [w |-> w, raised |-> TRUE, isNone |-> FALSE, emps |-> <<>>,
          called |-> {"search"}]
    ELSE IF flds # {}
    THEN IF searchOut.kind = "null"
         THEN [w |-> w, raised |-> TRUE, isNone |-> FALSE, emps |-> <<>>,
               called |-> {"search"}]
         ELSE Only({
              IF r.raised
              THEN [w |-> r.w, raised |-> TRUE, isNone |-> FALSE,
                    emps |-> <<>>, called |-> r.called \cup {"search"}]
              ELSE [w |-> r.w, raised |-> FALSE, isNone |-> FALSE,
                    emps |-> sorted_employees(r.emps),
                    called |-> r.called \cup {"search"}]
              : r \in {resolve_list_values(
                           w,
                           IF searchOut.v.hasEmployees
                           THEN searchOut.v.employees ELSE <<>>,
                           flds, schemaOut, listOuts)}})
    ELSE IF searchOut.kind = "null"
    THEN [w |-> w, raised |-> FALSE, isNone |-> TRUE, emps |-> <<>>,
          called |-> {"search"}]
    ELSE [w |-> w, raised |-> FALSE, isNone |-> FALSE,
          emps |-> IF searchOut.v.hasEmployees THEN searchOut.v.employees
                   ELSE <<>>,
          called |-> {"search"}]

\* hibob_people_search(fields, filters, humanReadable).  filters only goes
\* into the request body, and the remote answers as it likes: searchOut.
\* The call of line 150 stands in no try block, so its exception leaves the
\* tool; a null document has no .get (line 152).
hibob_people_search(w, flds, humanReadable, searchOut, schemaOut, listOuts) ==
    IF searchOut.kind = "raise"
    THEN [w |-> w, raised |-> TRUE, isNone |-> FALSE, emps |-> <<>>,
          called |-> {"search"}]
    ELSE IF humanReadable /\ flds # {}
    THEN IF searchOut.kind = "null"
         THEN [w |-> w, raised |-> TRUE, isNone |-> FALSE, emps |-> <<>>,
               called |-> {"search"}]
         ELSE Only({
              IF r.raised
              THEN [w |-> r.w, raised |-> TRUE, isNone |-> FALSE,
                    emps |-> <<>>, called |-> r.called \cup {"search"}]
              ELSE [w |-> r.w, raised |-> FALSE, isNone |-> FALSE,
                    emps |-> sorted_employees(r.emps),
                    called |-> r.called \cup {"search"}]
              : r \in {resolve_list_values(
                           w,
                           IF searchOut.v.hasEmployees
                           THEN searchOut.v.employees ELSE <<>>,
                           flds, schemaOut, listOuts)}})
    ELSE IF searchOut.kind = "null"
    THEN [w |-> w, raised |-> FALSE, isNone |-> TRUE, emps |-> <<>>,
          called |-> {"search"}]
    ELSE [w |-> w, raised |-> FALSE, isNone |-> FALSE,
          emps |-> IF searchOut.v.hasEmployees THEN searchOut.v.employees
                   ELSE <<>>,
          called |-> {"search"}]

Install(w) ==
    /\ field_metadata_cache' = w.fm
    /\ named_lists_cache' = w.nl
    /\ fmCalls' = w.fmCalls
    /\ nlCalls' = w.nlCalls
    /\ firstEntry' = w.first
    /\ fetchFailed' = w.failed

WithinCalls(w) ==
    /\ w.fmCalls <= MaxCalls
    /\ \A l \in ListIds : w.nlCalls[l] <= MaxCalls

NoArg == [emps |-> <<>>, list_id |-> "", hr |-> FALSE, searchKind |-> ""]
NoRet == [raised |-> FALSE, isNone |-> FALSE, emps |-> <<>>, called |-> {},
          entry |-> NoKey, m |-> EmptyMap]

\* The module as loaded: both caches empty.  The caller's records and field
\* ids are drawn from recordLists and fieldSets.
InitWith(recordLists, fieldSets) ==
    /\ field_metadata_cache = None
    /\ named_lists_cache = [l \in ListIds |-> NoKey]
    /\ fmCalls = 0
    /\ nlCalls = [l \in ListIds |-> 0]
    /\ firstEntry = [l \in ListIds |-> NoKey]
    /\ fetchFailed = {}
    /\ records \in recordLists
    /\ fields \in fieldSets
    /\ op = "init"
    /\ arg = NoArg
    /\ ret = NoRet
    /\ now = 0
    /\ lastReqAt = -1
    /\ gap = -1
    /\ fetchLast = 0
    /\ fetchPrev = 0
    /\ fetchedAt = -1
    /\ prevOk = FALSE
    /\ proc = [p \in Procs |-> Idle]
    /\ org = [roster |-> [e \in OrgIds |-> NotInRoster], built |-> FALSE,
              lines |-> <<>>]

Init == InitWith(EmployeeLists, FieldSets)

\* The outcomes a call may need: only those of lookups whose cache is empty.
SchemaChoices == IF field_metadata_cache.set THEN {Raise} ELSE SchemaOutcomes
ListChoice(l) == IF named_lists_cache[l].present THEN {Raise} ELSE ListOutcomes
\* The lists a resolver call over employees and flds looks up once the schema
\* lookup has answered schemaOut: outcomes are drawn for these alone.
ListsLookedUp(employees, flds, schemaOut) ==
    Only({
      IF employees = <<>> \/ flds = {} \/ ~fm.set
      THEN {}
      ELSE Only({ {lfm.listOf[lfm.order[i]] : i \in 1..Len(lfm.order)}
                  : lfm \in {list_field_map(fm.v, flds, Len(fm.v))}})
      : fm \in {get_field_metadata(World, schemaOut).ret}})
ListChoices(looked) ==
    {f \in ListOutcomeMaps :
        \A l \in ListIds : f[l] \in (IF l \in looked THEN ListChoice(l) ELSE {Raise})}
SchemaChoicesFor(employees, flds) ==
    IF employees = <<>> \/ flds = {} THEN {Raise} ELSE SchemaChoices

GetFieldMetadata ==
    \E out \in SchemaChoices :
        \E r \in {get_field_metadata(World, out)} :
            /\ WithinCalls(r.w)
            /\ Install(r.w)
            /\ op' = "get_field_metadata"
            /\ arg' = NoArg
            /\ ret' = [NoRet EXCEPT !.called = IF r.called THEN {"schema"} ELSE {}]
            /\ UNCHANGED <<records, fields, timeVars, proc, org>>

GetNamedList ==
    \E l \in ListIds :
      \E out \in ListChoice(l) :
        \E r \in {get_named_list(World, l, out)} :
            /\ WithinCalls(r.w)
            /\ Install(r.w)
            /\ op' = "get_named_list"
            /\ arg' = [NoArg EXCEPT !.list_id = l]
            /\ ret' = [NoRet EXCEPT !.called = IF r.called THEN {l} ELSE {},
                                    !.entry = r.ret]
            /\ UNCHANGED <<records, fields, timeVars, proc, org>>

\* _resolve_list_values(employees, fields) applied to employees
Resolve(employees, opName) ==
    \E schemaOut \in SchemaChoicesFor(employees, fields) :
      \E listOuts \in ListChoices(ListsLookedUp(employees, fields, schemaOut)) :
        \E r \in {resolve_list_values(World, employees, fields, schemaOut,
                                      listOuts)} :
            /\ WithinCalls(r.w)
            /\ Install(r.w)
            /\ op' = opName
            /\ arg' = [NoArg EXCEPT !.emps = employees]
            /\ ret' = [NoRet EXCEPT !.raised = r.raised, !.emps = r.emps,
                                    !.called = r.called, !.m = r.m]
            /\ UNCHANGED <<records, fields, timeVars, proc, org>>

\* the resolver called on the caller's records
ResolveListValues == Resolve(records, "resolve")

\* the resolver called again on what its last call returned
ResolveOwnOutput ==
    /\ op \in {"resolve", "resolve_again"}
    /\ ~ret.raised
    /\ Resolve(ret.emps, "resolve_again")

Next ==
    \/ GetFieldMetadata
    \/ GetNamedList
    \/ ResolveListValues
    \/ ResolveOwnOutput

Spec == Init /\ [][Next]_vars

\* ------------------------------------------------------------------ claims
ResolveOps == {"resolve", "resolve_again"}

\* C1: over any sequence of completed calls, at most one remote call is issued
\* per named-list id, whether its first fetch succeeded or failed; the entry
\* the first call stored stays in the cache unchanged, and every later lookup
\* of that id returns it.
C1_NamedListFetchedOnce ==
    \A l \in ListIds :
        /\ nlCalls[l] <= 1
        /\ nlCalls[l] = 1 =>
              named_lists_cache[l].present /\ named_lists_cache[l] = firstEntry[l]
        /\ (op = "get_named_list" /\ arg.list_id = l) =>
              ret.entry.present /\ ret.entry = firstEntry[l]

\* a lookup answered from the cache after the first fetch of that id failed
C1_Witness ==
    /\ op = "get_named_list"
    /\ ret.called = {}
    /\ arg.list_id \in fetchFailed
    /\ nlCalls[arg.list_id] = 1
    /\ ret.entry = Cached(ListDoc(FALSE, <<>>))

\* C2: the field-schema lookup fetches remotely on its first call only, for
\* every outcome of the first fetch: the remote is called at most once.
C2_SchemaFetchedOnce == fmCalls <= 1

\* no display value of the mapping is itself a key with another display value
NoChain(m) ==
    \A k \in Keys :
        (m[k] # Absent /\ HasKey(m, Str(m[k]))) => m[Str(m[k])] = m[k]

\* C3 as stated: the resolver called on its own output, with the caches as the
\* first call left them, changes no field of any record.
C3_Idempotent ==
    (op = "resolve_again" /\ ~ret.raised /\ ret.called = {}) =>
        ret.emps = arg.emps

\* C3 amended: the same, provided no display value of the id-to-display
\* mapping is itself an item id mapped to a different display value.
C3_IdempotentWithoutChain ==
    (op = "resolve_again" /\ ~ret.raised /\ ret.called = {} /\ NoChain(ret.m)) =>
        ret.emps = arg.emps

\* a second call that found display values written by the first and left
\* them alone
C3_Witness ==
    /\ op = "resolve_again"
    /\ ~ret.raised
    /\ ret.called = {}
    /\ NoChain(ret.m)
    /\ HasAnyKey(ret.m)
    /\ arg.emps # records
    /\ ret.emps = arg.emps

\* The requested two-segment enumeration fields under the cached schema.
RequestedEnumFields2 ==
    {f \in fields :
        /\ Len(f) = 2
        /\ field_metadata_cache.set
        /\ \E i \in 1..Len(field_metadata_cache.v) :
              LET field == field_metadata_cache.v[i]
              IN  /\ field.isDict
                  /\ field.id = f
                  /\ field.type \in EnumTypes
                  /\ field.listId # ""}

\* what a present encoding holds after resolution, and an absent one stays
Rewritten(v, m) ==
    IF v # Absent /\ HasKey(m, Str(v)) THEN m[Str(v)] ELSE v

\* C4: for a requested two-segment enumeration field, each of the two
\* encodings is rewritten on its own: an encoding that is present and whose
\* stringified raw value is a key of the mapping holds the display value
\* afterwards, whatever the other encoding is; an absent one is not created.
C4_DualEncoding ==
    (op \in ResolveOps /\ ~ret.raised) =>
        /\ Len(ret.emps) = Len(arg.emps)
        /\ \A n \in 1..Len(arg.emps) :
             \A f \in RequestedEnumFields2 :
                /\ ret.emps[n].nested[f] = Rewritten(arg.emps[n].nested[f], ret.m)
                /\ ret.emps[n].slash[f] = Rewritten(arg.emps[n].slash[f], ret.m)

\* a record carrying both encodings of one field, both rewritten
C4_Witness ==
    /\ op = "resolve"
    /\ ~ret.raised
    /\ \E n \in 1..Len(arg.emps) :
         \E f \in RequestedEnumFields2 :
            /\ arg.emps[n].nested[f] # Absent
            /\ arg.emps[n].slash[f] # Absent
            /\ ret.emps[n].nested[f] # arg.emps[n].nested[f]
            /\ ret.emps[n].slash[f] # arg.emps[n].slash[f]

\* the named list of a requested enumeration field under the cached schema
ListOfField(f) ==
    list_field_map(field_metadata_cache.v, fields,
                   Len(field_metadata_cache.v)).listOf[f]

\* C5: a failed remote fetch never makes the resolver raise, and a field
\* whose own named list failed to load keeps its raw value in every record.
C5_FailedListKeepsRaw ==
    (op \in ResolveOps) =>
        /\ ret.raised => \E l \in ListIds : named_lists_cache[l].isNone
        /\ ~ret.raised =>
             \A n \in 1..Len(arg.emps) :
                \A f \in RequestedEnumFields2 :
                    ListOfField(f) \in fetchFailed =>
                        /\ ret.emps[n].nested[f] = arg.emps[n].nested[f]
                        /\ ret.emps[n].slash[f] = arg.emps[n].slash[f]

\* the first half of C5 alone: the resolver raises only on a null document
C5_RaisesOnlyOnNull ==
    (op \in ResolveOps /\ ret.raised) =>
        \E l \in ListIds : named_lists_cache[l].isNone

\* the id-to-display mapping of the named list of field f alone, as the cache
\* holds that list
OwnMap(f) ==
    LET entry == named_lists_cache[ListOfField(f)]
        values == IF entry.doc.hasValues THEN entry.doc.values ELSE <<>>
    IN  add_items(EmptyMap, values, Len(values))

\* C11: a requested enumeration field's raw value is replaced only with the
\* display value that the field's own named list assigns to it: a value that
\* is no item id of the own list stays, although another field's list holds
\* that id, and an id of both lists gets the display value of the own list.
C11_OwnListOnly ==
    (op \in ResolveOps /\ ~ret.raised) =>
        \A n \in 1..Len(arg.emps) :
            \A f \in RequestedEnumFields2 :
                /\ ret.emps[n].nested[f] = Rewritten(arg.emps[n].nested[f], OwnMap(f))
                /\ ret.emps[n].slash[f] = Rewritten(arg.emps[n].slash[f], OwnMap(f))

\* the first half of C11 alone: a value that is no item id of the field's
\* own list is left unchanged
C11_ForeignIdStays ==
    (op = "resolve" /\ ~ret.raised) =>
        \A n \in 1..Len(arg.emps) :
            \A f \in RequestedEnumFields2 :
                (/\ arg.emps[n].nested[f] # Absent
                 /\ ~HasKey(OwnMap(f), Str(arg.emps[n].nested[f]))) =>
                    ret.emps[n].nested[f] = arg.emps[n].nested[f]

\* the second half of C11 alone: an id of the field's own list gets the
\* display value of the own list
C11_OwnDisplayWins ==
    (op = "resolve" /\ ~ret.raised) =>
        \A n \in 1..Len(arg.emps) :
            \A f \in RequestedEnumFields2 :
                (/\ arg.emps[n].nested[f] # Absent
                 /\ HasKey(OwnMap(f), Str(arg.emps[n].nested[f]))) =>
                    ret.emps[n].nested[f] = OwnMap(f)[Str(arg.emps[n].nested[f])]

\* ------------------------------------------------------------------ the tool
\* What the remote answers to people/search: the roster it holds (records),
\* a document without "employees", null, or a failure.
SearchOutcomes ==
    {Raise, JsonNull, Json(SearchDoc(TRUE, records)), Json(SearchDoc(FALSE, <<>>))}

\* the records a search hands to the resolver, if it hands it any
Resolved(humanReadable, searchOut) ==
    IF humanReadable /\ searchOut.kind = "json" /\ searchOut.v.hasEmployees
    THEN searchOut.v.employees ELSE <<>>

\* hibob_people_search(fields, filters, humanReadable) called by the client
Search(humanReadable) ==
    \E searchOut \in SearchOutcomes :
      \E schemaOut \in SchemaChoicesFor(Resolved(humanReadable, searchOut), fields) :
      \E listOuts \in ListChoices(ListsLookedUp(Resolved(humanReadable, searchOut),
                                                 fields, schemaOut)) :
        \E r \in {hibob_people_search(World, fields, humanReadable, searchOut,
                                      schemaOut, listOuts)} :
            /\ WithinCalls(r.w)
            /\ Install(r.w)
            /\ op' = "people_search"
            /\ arg' = [NoArg EXCEPT !.hr = humanReadable,
                                    !.searchKind = searchOut.kind,
                                    !.emps = IF searchOut.kind = "json"
                                             THEN searchOut.v.employees ELSE <<>>]
            /\ ret' = [NoRet EXCEPT !.raised = r.raised, !.isNone = r.isNone,
                                    !.emps = r.emps, !.called = r.called]
            /\ fetchLast' = Cardinality(r.called \cap {"search"})
            /\ fetchedAt' = IF "search" \in r.called /\ ~r.raised
                            THEN now ELSE fetchedAt
            /\ UNCHANGED <<records, fields, proc, org>>

PeopleSearch ==
    \E humanReadable \in BOOLEAN :
        /\ Search(humanReadable)
        /\ UNCHANGED <<now, lastReqAt, gap, fetchPrev, prevOk>>

InitSearch == InitWith(Rosters, FieldSets)
NextSearch == PeopleSearch
SpecSearch == InitSearch /\ [][NextSearch]_vars

\* C6: when the remote roster-search call fails, hibob_people_search returns
\* a result instead of raising.
C6_SearchFailureReturns ==
    (op = "people_search" /\ arg.searchKind = "raise") => ~ret.raised

\* an employee whose work mapping has a null or missing reportsTo
TopLevel(e) == e.workIsDict /\ e.reportsTo \in {Absent, Null}

\* C10: with humanReadable and fields set, the returned list is the response's
\* employees with those whose work mapping has a null or missing reportsTo
\* first, each of the two groups in the order of the response.
C10_StablePartition ==
    (op = "people_search" /\ arg.hr /\ fields # {} /\ ~ret.raised) =>
        /\ Len(ret.emps) = Len(arg.emps)
        /\ \A n \in 1..Len(arg.emps) :
              Cardinality({i \in 1..Len(ret.emps) : ret.emps[i].idx = n}) = 1
        /\ \A i, j \in 1..Len(ret.emps) :
              i < j =>
                /\ TopLevel(ret.emps[j]) => TopLevel(ret.emps[i])
                /\ (TopLevel(ret.emps[i]) <=> TopLevel(ret.emps[j])) =>
                      ret.emps[i].idx < ret.emps[j].idx

\* a search that moved an employee with a null reportsTo ahead of one the
\* response listed before it
C10_Witness ==
    /\ op = "people_search"
    /\ arg.hr
    /\ fields # {}
    /\ ~ret.raised
    /\ \E i, j \in 1..Len(ret.emps) :
          i < j /\ ret.emps[i].idx > ret.emps[j].idx /\ TopLevel(ret.emps[i])

\* ------------------------------------------------------------------ no-op calls
\* The lookups, the resolver and the search tool called in any order on the
\* caller's records; the caller asks for no field or for the title.
InitNoop == InitWith(EmployeeLists, {{}, {F_title}})
NextNoop ==
    \/ GetFieldMetadata
    \/ GetNamedList
    \/ ResolveListValues
    \/ PeopleSearch
SpecNoop == InitNoop /\ [][NextNoop]_vars

\* the step is a call that asks for no resolution: the resolver with no
\* record or no requested field, the search with humanReadable unset or no
\* field
NoResolution ==
    \/ op' \in ResolveOps /\ (arg'.emps = <<>> \/ fields = {})
    \/ op' = "people_search" /\ (~arg'.hr \/ fields = {})

\* C12: a call that asks for no resolution issues no field-schema and no
\* named-list remote call, leaves both caches as they were, and what it
\* returns is the records it was given, every value and the order unchanged.
C12_NoOpFrame ==
    [][NoResolution =>
          /\ field_metadata_cache' = field_metadata_cache
          /\ named_lists_cache' = named_lists_cache
          /\ fmCalls' = fmCalls
          /\ nlCalls' = nlCalls
          /\ ret'.called \subseteq {"search"}
          /\ (~ret'.raised /\ ~ret'.isNone) => ret'.emps = arg'.emps]_vars

\* the resolver called with records and no requested field while both caches
\* hold entries
C12_Witness ==
    /\ op = "resolve"
    /\ fields = {}
    /\ arg.emps # <<>>
    /\ field_metadata_cache.set
    /\ \E l \in ListIds : named_lists_cache[l].present
    /\ ret.called = {}
    /\ ret.emps = arg.emps

\* the search called with fields and humanReadable unset while the schema
\* cache holds an entry
C12_SearchCase ==
    /\ op = "people_search"
    /\ ~arg.hr
    /\ fields # {}
    /\ arg.emps # <<>>
    /\ field_metadata_cache.set
    /\ ~ret.raised
    /\ ret.emps = arg.emps

\* ------------------------------------------------------------------ time
Tick ==
    /\ now < MaxClock
    /\ now' = now + 1
    /\ UNCHANGED <<cacheVars, records, fields, op, arg, ret, lastReqAt, gap,
                   fetchLast, fetchPrev, fetchedAt, prevOk, proc, org>>

\* a roster request: a call of hibob_people_search at time now
RosterRequest ==
    \E humanReadable \in BOOLEAN :
        /\ Search(humanReadable)
        /\ lastReqAt' = now
        /\ gap' = IF lastReqAt = -1 THEN -1 ELSE now - lastReqAt
        /\ fetchPrev' = fetchLast
        /\ prevOk' = (op = "people_search" /\ ~ret.raised /\ ~ret.isNone)
        /\ now' = now

\* time matters to the roster fetch alone: the requests ask for no field or
\* for the title
InitTTL == InitWith(EmployeeLists, {{}, {F_title}})
NextTTL == Tick \/ RosterRequest
SpecTTL == InitTTL /\ [][NextTTL]_vars

\* C8: two roster requests less than the TTL apart, the first of which
\* fetched and returned a roster, trigger exactly one remote roster fetch, two
\* requests more than the TTL apart trigger two, and no roster is returned
\* whose age exceeds the TTL.
C8_RosterTTL ==
    /\ (gap >= 0 /\ gap < TTL /\ prevOk) => fetchPrev + fetchLast = 1
    /\ gap > TTL => fetchPrev + fetchLast = 2
    /\ (op = "people_search" /\ ~ret.raised) => lastReqAt - fetchedAt <= TTL

\* the two halves of C8 that the code meets
C8_FreshAndRefetched ==
    /\ gap > TTL => fetchPrev + fetchLast = 2
    /\ (op = "people_search" /\ ~ret.raised) => lastReqAt - fetchedAt <= TTL

\* ------------------------------------------------------------------ threads
\* The lookups run by several threads at once, statement by statement: the
\* test of line 37 or 47, the remote call of line 39 or 49 (sent, then
\* answered), the assignment of lines 39-41 or 49-51, and the return of line
\* 42 or 52, which reads the cache again.
ConcKeys == {"schema"} \cup ListIds
ConcSchemaOutcomes == {Raise, JsonNull, Json(SchemaA)}
ConcListOutcomes == {Raise, Json(ListDoc(TRUE, ListA))}

\* a lookup that sends its remote call again when the call raised
next_after_response_retry(out) == IF out.kind = "raise" THEN "fetch" ELSE "store"

\* where a lookup goes once its remote call has been answered: to the
\* assignment of the try body or of the except body, never back to the call
next_after_response(out) == "store"

\* line 37 / line 47: the call and its test of the cache
Invoke(p) ==
    /\ proc[p].pc = "idle"
    /\ \E k \in ConcKeys :
        LET empty == IF k = "schema" THEN ~field_metadata_cache.set
                     ELSE ~named_lists_cache[k].present
        IN  proc' = [proc EXCEPT ![p] =
                [Idle EXCEPT !.pc = IF empty THEN "fetch" ELSE "return",
                             !.key = k,
                             !.fm = IF k = "schema" THEN field_metadata_cache
                                    ELSE Idle.fm,
                             !.nl = IF k = "schema" THEN Idle.nl
                                    ELSE named_lists_cache[k]]]
    /\ UNCHANGED <<cacheVars, records, fields, op, arg, ret, timeVars, org>>

\* line 39 / line 49: the request leaves
IssueFetch(p) ==
    /\ proc[p].pc = "fetch"
    /\ LET k == proc[p].key
           w == IF k = "schema" THEN [World EXCEPT !.fmCalls = @ + 1]
                ELSE [World EXCEPT !.nlCalls[k] = @ + 1]
       IN  /\ WithinCalls(w)
           /\ fmCalls' = w.fmCalls
           /\ nlCalls' = w.nlCalls
    /\ proc' = [proc EXCEPT ![p].pc = "await", ![p].issued = @ + 1]
    /\ UNCHANGED <<field_metadata_cache, named_lists_cache, firstEntry,
                   fetchFailed, records, fields, op, arg, ret, timeVars, org>>

\* the answer arrives, or the call raises
Respond(p) ==
    /\ proc[p].pc = "await"
    /\ \E out \in (IF proc[p].key = "schema" THEN ConcSchemaOutcomes
                   ELSE ConcListOutcomes) :
        proc' = [proc EXCEPT ![p].pc = next_after_response(out), ![p].out = out]
    /\ UNCHANGED <<cacheVars, records, fields, op, arg, ret, timeVars, org>>

\* lines 39-41 / lines 49-51: the assignment to the cache
Store(p) ==
    /\ proc[p].pc = "store"
    /\ LET k == proc[p].key
           out == proc[p].out
       IN  /\ field_metadata_cache' =
                 IF k = "schema" THEN schema_value(out) ELSE field_metadata_cache
           /\ named_lists_cache' =
                 IF k = "schema" THEN named_lists_cache
                 ELSE [named_lists_cache EXCEPT ![k] = list_value(out)]
           /\ firstEntry' =
                 IF k # "schema" /\ ~firstEntry[k].present
                 THEN [firstEntry EXCEPT ![k] = list_value(out)]
                 ELSE firstEntry
           /\ fetchFailed' =
                 IF out.kind = "raise" THEN fetchFailed \cup {k} ELSE fetchFailed
    /\ proc' = [proc EXCEPT ![p].pc = "return"]
    /\ UNCHANGED <<fmCalls, nlCalls, records, fields, op, arg, ret, timeVars,
                   org>>

\* line 42 / line 52: the cache is read again and returned
Return(p) ==
    /\ proc[p].pc = "return"
    /\ proc' = [proc EXCEPT ![p].pc = "idle",
                            ![p].fm = IF proc[p].key = "schema"
                                      THEN field_metadata_cache ELSE Idle.fm,
                            ![p].nl = IF proc[p].key = "schema" THEN Idle.nl
                                      ELSE named_lists_cache[proc[p].key]]
    /\ UNCHANGED <<cacheVars, records, fields, op, arg, ret, timeVars, org>>

InitConc == InitWith({<<>>}, {{}})
NextConc ==
    \E p \in Procs :
        \/ Invoke(p)
        \/ IssueFetch(p)
        \/ Respond(p)
        \/ Store(p)
        \/ Return(p)
SpecConc == InitConc /\ [][NextConc]_vars

\* the remote calls for key k that have left and are not answered yet
InFlight(k) == Cardinality({p \in Procs : proc[p].key = k /\ proc[p].pc = "await"})
Issued(k) == IF k = "schema" THEN fmCalls ELSE nlCalls[k]

\* the entries a completed assignment can leave in the caches
CompleteSchemaValues == {schema_value(out) : out \in ConcSchemaOutcomes}
CompleteListValues == {list_value(out) : out \in ConcListOutcomes}

\* what every thread has read from the caches is absent or complete
ReadsComplete ==
    \A p \in Procs :
        /\ proc[p].fm.set => proc[p].fm \in CompleteSchemaValues
        /\ proc[p].nl.present => proc[p].nl \in CompleteListValues

\* C7 as stated: with lookups of one key interleaved, at most one remote fetch
\* of that key is in flight, at most one is ever issued, and no thread reads
\* a cache entry that is neither absent nor complete.
C7_OneFetchPerKey ==
    /\ \A l \in ListIds : InFlight(l) <= 1 /\ Issued(l) <= 1
    /\ InFlight("schema") <= 1
    /\ ReadsComplete

\* C7 amended: each invocation issues at most one remote fetch, and only
\* after its own test found the key absent, so that as many fetches of one
\* key can be in flight as there are interleaved invocations; no thread reads
\* a cache entry that is neither absent nor complete.
C7_OneFetchPerInvocation ==
    /\ \A p \in Procs :
          /\ proc[p].issued <= 1
          /\ proc[p].pc \in {"fetch", "await", "store"} =>
                ~proc[p].fm.set /\ ~proc[p].nl.present
    /\ ReadsComplete

\* two invocations for one named list, both with their fetch in flight
C7_Witness ==
    \E l \in ListIds :
        /\ InFlight(l) = Cardinality(Procs)
        /\ \A p \in Procs : proc[p].issued = 1

\* ------------------------------------------------------------------ org chart
\* The org-chart builder.  A roster gives every employee id its reportsTo, or
\* NotInRoster; the compact display string of an employee is ordered as its
\* DisplayRank.
DisplayRank(e) == IF e = "A" THEN 1 ELSE IF e = "B" THEN 2 ELSE 3

\* step 1: the records by id, and the manager id of each ("" for a root)
emp_by_id(roster) == {e \in OrgIds : roster[e] # NotInRoster}
manager_id(roster, e) ==
    IF roster[e] \in {NoMgr, NoMgrId} THEN "" ELSE roster[e]
org_roots(roster) == {e \in emp_by_id(roster) : manager_id(roster, e) = ""}

\* step 2: the non-root records grouped under their manager id
org_children(roster, m) ==
    {e \in emp_by_id(roster) : manager_id(roster, e) = m}

\* step 3: a set of employees in the order of their display strings
RECURSIVE sorted_by_display(_)
sorted_by_display(S) ==
    IF S = {} THEN <<>>
    ELSE LET first == CHOOSE e \in S : \A x \in S : DisplayRank(e) <= DisplayRank(x)
         IN  <<first>> \o sorted_by_display(S \ {first})

\* step 3: the lines of the subtrees of the employees of level, in order,
\* depth first.  An employee reached from a root has that root above it and
\* no other, so the traversal ends.
RECURSIVE render_level(_, _, _, _)
render_level(roster, level, depth, i) ==
    IF i > Len(level) THEN <<>>
    ELSE <<[id |-> level[i], depth |-> depth]>>
         \o render_level(roster, sorted_by_display(org_children(roster, level[i])),
                         depth + 1, 1)
         \o render_level(roster, level, depth, i + 1)

buildTree(roster) ==
    render_level(roster, sorted_by_display(org_roots(roster)), 0, 1)

InitOrg ==
    /\ InitWith({<<>>}, {{}})

\* the roster of the request
OrgRosters == [OrgIds -> MgrRefs \cup {NotInRoster}]

BuildOrgChart ==
    \E roster \in OrgRosters :
        /\ org' = [roster |-> roster, built |-> TRUE, lines |-> buildTree(roster)]
        /\ UNCHANGED <<cacheVars, records, fields, op, arg, ret, timeVars, proc>>

NextOrg == BuildOrgChart
SpecOrg == InitOrg /\ [][NextOrg]_vars

\* the employees following whose manager references leads back to them
RECURSIVE ReachesSelf(_, _, _, _)
ReachesSelf(roster, start, e, fuel) ==
    IF fuel = 0 \/ e \notin emp_by_id(roster) \/ manager_id(roster, e) = "" THEN FALSE
    ELSE \/ manager_id(roster, e) = start
         \/ ReachesSelf(roster, start, manager_id(roster, e), fuel - 1)
HasCycle(roster) ==
    \E e \in emp_by_id(roster) : ReachesSelf(roster, e, e, Cardinality(OrgIds))

RenderedRoots == {org.lines[i].id : i \in {j \in 1..Len(org.lines) : org.lines[j].depth = 0}}
TimesRendered(e) == Cardinality({i \in 1..Len(org.lines) : org.lines[i].id = e})

\* C9: an employee whose manager reference names an id that is not in the
\* roster is rendered as a root, beside the employees without a manager
\* reference, and every employee of a roster without manager cycles is
\* rendered exactly once.
C9_DanglingManagerIsRoot ==
    org.built =>
        /\ RenderedRoots =
              {e \in emp_by_id(org.roster) :
                  \/ manager_id(org.roster, e) = ""
                  \/ manager_id(org.roster, e) \notin emp_by_id(org.roster)}
        /\ ~HasCycle(org.roster) =>
              \A e \in emp_by_id(org.roster) : TimesRendered(e) = 1

\* C9 on the roster of the claim alone: A has no manager, B reports to A, C
\* reports to an id that is in no record; the roots are A and C.
C9_ExampleRoster ==
    (org.built /\ org.roster = [e \in OrgIds |->
                                  IF e = "A" THEN NoMgr
                                  ELSE IF e = "B" THEN "A" ELSE "X"]) =>
        /\ RenderedRoots = {"A", "C"}
        /\ \E i \in 1..Len(org.lines) : org.lines[i] = [id |-> "B", depth |-> 1]
====
